---- MODULE Spec2Model ----
(***************************************************************************)
(* Model of create_heatmap.py: the CSV record loader (parse_number,        *)
(* parse_ranking_change, read_csv_data), the cross-year rank-delta pass     *)
(* and serialisation of generate_heatmap_html, and the driver main.         *)
(*                                                                         *)
(* Text is a sequence of one-character tokens.  Tokens that stand for a    *)
(* character TLA+ strings cannot hold are named: "TAB" (U+0009), "sup2"    *)
(* (U+00B2, superscript two), "DN" (U+2B07), "UPA" (U+2B06), "VS" (U+FE0F). *)
(* Python's None is the one-token text <<"None">> where a text is expected *)
(* and the string "None" where a direction is expected.                    *)
(***************************************************************************)
EXTENDS Integers, Sequences, FiniteSets, TLC

VARIABLES
    pc,                 \* position of the modelled call
    value, result,      \* parse_number: argument and returned value
    header, rows, companies, raised,   \* read_csv_data: fieldnames, rows consumed, list built, exception
    prev_companies, current_companies, \* calculate_rank_changes: its two arguments
    all_years_data, processed_years, idx, \* generate_heatmap_html: argument, per-year result, loop index
    html_content,       \* generate_heatmap_html: the document returned
    year,               \* read_csv_data: the year tag passed in
    files, output,      \* main: the CSV files per configured year, the file at output_path
    exit_status,        \* main: the exit status of the script once main has ended
    currentYear, currentCompanies,  \* page: the year shown and its JSON array
    activeButtons,      \* page: the years whose button carries the class 'active'
    shownStats,         \* page: the numbers in #stat-count, #stat-total, #stat-icc
    treemap,            \* page: the cells of #treemap
    companyHistory,     \* page: the data of the chart in the detail view
    modalShown, modalTitle,  \* page: the detail view's class 'show' and its title
    alerted,            \* page: the text of the last alert
    call                \* page: the handler that ran last, switchYear with its argument

vars == <<pc, value, result, header, rows, companies, raised,
          prev_companies, current_companies,
          all_years_data, processed_years, idx, html_content, year, files, output,
          exit_status, currentYear, currentCompanies, activeButtons, shownStats,
          treemap, companyHistory, modalShown, modalTitle, alerted, call>>

None == <<"None">>

\* ---------------------------------------------------------------------
\* Python string operations
\* ---------------------------------------------------------------------
Whitespace == {" ", "TAB"}

AsciiDigits == {"0", "1", "2", "3", "4", "5", "6", "7", "8", "9"}

\* characters for which str.isdigit() is true: decimal digits and digit-like
\* characters such as superscripts
IsDigitChars == AsciiDigits \cup {"sup2"}

DigitValue(c) ==
    CASE c = "0" -> 0 [] c = "1" -> 1 [] c = "2" -> 2 [] c = "3" -> 3
      [] c = "4" -> 4 [] c = "5" -> 5 [] c = "6" -> 6 [] c = "7" -> 7
      [] c = "8" -> 8 [] c = "9" -> 9

RECURSIVE LStrip(_)
LStrip(s) == IF s # <<>> /\ Head(s) \in Whitespace THEN LStrip(Tail(s)) ELSE s

RECURSIVE RStrip(_)
RStrip(s) ==
    IF s # <<>> /\ s[Len(s)] \in Whitespace
    THEN RStrip(SubSeq(s, 1, Len(s) - 1)) ELSE s

\* str.strip()
Strip(s) == RStrip(LStrip(s))

\* str.replace(c, '')
Remove(s, c) == SelectSeq(s, LAMBDA x : x # c)

\* str.isdigit(): non-empty and every character a digit character
IsDigit(s) == s # <<>> /\ \A k \in 1..Len(s) : s[k] \in IsDigitChars

LowerChar(c) ==
    CASE c = "A" -> "a" [] c = "C" -> "c" [] c = "E" -> "e" [] c = "G" -> "g"
      [] c = "I" -> "i" [] c = "L" -> "l" [] c = "M" -> "m" [] c = "N" -> "n"
      [] c = "P" -> "p" [] c = "X" -> "x"
      [] OTHER -> c

\* str.lower()
Lower(s) == [k \in 1..Len(s) |-> LowerChar(s[k])]

\* sub in s
Contains(s, sub) ==
    \E k \in 1..(Len(s) - Len(sub) + 1) : SubSeq(s, k, k + Len(sub) - 1) = sub

RECURSIVE DigitsValue(_, _)
DigitsValue(s, acc) ==
    IF s = <<>> THEN acc
    ELSE IF Head(s) = "_" THEN DigitsValue(Tail(s), acc)
    ELSE DigitsValue(Tail(s), 10 * acc + DigitValue(Head(s)))

\* the digit part of an int() literal: decimal digits, single underscores
\* allowed between digits only
IsIntBody(s) ==
    /\ s # <<>>
    /\ \A k \in 1..Len(s) : s[k] \in AsciiDigits \cup {"_"}
    /\ s[1] # "_" /\ s[Len(s)] # "_"
    /\ \A k \in 1..(Len(s) - 1) : ~(s[k] = "_" /\ s[k + 1] = "_")

\* int(s) for a str: surrounding whitespace and one sign are accepted;
\* ok = FALSE stands for ValueError
PyInt(s) ==
    LET t == Strip(s)
        signed == t # <<>> /\ Head(t) \in {"+", "-"}
        body == IF signed THEN Tail(t) ELSE t
    IN  IF IsIntBody(body)
        THEN [ok |-> TRUE,
              val |-> IF signed /\ Head(t) = "-"
                      THEN 0 - DigitsValue(body, 0) ELSE DigitsValue(body, 0)]
        ELSE [ok |-> FALSE, val |-> 0]

\* ---------------------------------------------------------------------
\* parse_number
\* ---------------------------------------------------------------------
\* variant: commas are left in place
Cleaned_KeepCommas(v) == Remove(Remove(Remove(Strip(v), "\""), "'"), " ")

Cleaned(v) == Remove(Remove(Remove(Remove(Strip(v), "\""), "'"), ","), " ")

\* variant: the except branch returns a sentinel instead of 0
parse_number_MinusOne(v) ==
    IF v = None \/ v = <<>> THEN 0
    ELSE IF PyInt(Cleaned(v)).ok THEN PyInt(Cleaned(v)).val ELSE 0 - 1

parse_number(v) ==
    IF v = None \/ v = <<>> THEN 0
    ELSE IF PyInt(Cleaned(v)).ok THEN PyInt(Cleaned(v)).val ELSE 0

\* ---------------------------------------------------------------------
\* parse_ranking_change
\* ---------------------------------------------------------------------
NoValue == 0 - 1    \* rank_change_value None (every parsed or computed value is >= 0)

DownGlyph == <<"DN", "VS">>
UpGlyph == <<"UPA", "VS">>

\* re.search(r'\d+', value): the first maximal run of decimal digits
FirstDigitRun(s) ==
    LET starts == {k \in 1..Len(s) : s[k] \in AsciiDigits}
        first == CHOOSE k \in starts : \A j \in starts : k <= j
        ends == {e \in first..Len(s) :
                    /\ \A j \in first..e : s[j] \in AsciiDigits
                    /\ (e = Len(s) \/ s[e + 1] \notin AsciiDigits)}
        last == CHOOSE e \in ends : TRUE
    IN  IF starts = {} THEN <<>> ELSE SubSeq(s, first, last)

GlyphNumber(v) ==
    IF FirstDigitRun(v) = <<>> THEN 0 ELSE DigitsValue(FirstDigitRun(v), 0)

\* variant: a glyph without digits gives a direction without a magnitude
parse_ranking_change_GlyphOnly(v) ==
    IF v = None \/ v = <<>> THEN <<"None", NoValue>>
    ELSE IF Contains(v, DownGlyph)
    THEN <<"down", IF FirstDigitRun(v) = <<>> THEN NoValue ELSE GlyphNumber(v)>>
    ELSE IF Contains(v, UpGlyph)
    THEN <<"up", IF FirstDigitRun(v) = <<>> THEN NoValue ELSE GlyphNumber(v)>>
    ELSE <<"None", NoValue>>

\* returns <<direction, change>>
parse_ranking_change(v) ==
    IF v = None \/ v = <<>> THEN <<"None", NoValue>>
    ELSE IF Contains(v, DownGlyph) THEN <<"down", GlyphNumber(v)>>
    ELSE IF Contains(v, UpGlyph) THEN <<"up", GlyphNumber(v)>>
    ELSE <<"None", NoValue>>

\* ---------------------------------------------------------------------
\* read_csv_data
\* ---------------------------------------------------------------------
COL_RANK == "rank"
COL_SHORT == "short Employer (Petitioner) Name"      \* the label prefixed "简称"
COL_NAME == "Employer (Petitioner) Name"
COL_FULL == "full Employer (Petitioner) Name"        \* the label prefixed "全名"
COL_ICC == "is ICC"                                  \* "是否ICC"
COL_APPROVED == "Beneficiaries Approved"
COL_TOTAL == "TOTAL"
COL_CHANGE == "rank change"                          \* "排名变化"

\* csv.DictReader: the dict of one row.  A field of the header beyond the
\* row's last cell is present with value None (restval); cells beyond the
\* header are stored under a key the loader never reads.
DictRow(hdr, row) ==
    [c \in {hdr[p] : p \in 1..Len(hdr)} |->
        LET p == CHOOSE q \in 1..Len(hdr) : hdr[q] = c
        IN  IF p <= Len(row) THEN row[p] ELSE None]

\* row.get(col, ''): the default only when the label is not a key
Get(d, col) == IF col \in DOMAIN d THEN d[col] ELSE <<>>

\* Python truth value of a cell: None and '' are false
Truthy(v) == v # None /\ v # <<>>

\* a or b
PyOr(a, b) == IF Truthy(a) THEN a ELSE b

\* rank = row.get('rank', '').strip(); if not rank or not rank.isdigit(): continue
RankAccepted(rank) == rank # <<>> /\ IsDigit(rank)

\* name = (row.get(short, '') or row.get(fallback, ''))   before .strip()
NameCell(d) == PyOr(Get(d, COL_SHORT), Get(d, COL_NAME))

\* beneficiaries_str = row.get('Beneficiaries Approved', '') or row.get('TOTAL', '')
BeneficiariesCell(d) == PyOr(Get(d, COL_APPROVED), Get(d, COL_TOTAL))

\* beneficiaries = parse_number(beneficiaries_str) if beneficiaries_str else 0
Beneficiaries(d) ==
    IF Truthy(BeneficiariesCell(d)) THEN parse_number(BeneficiariesCell(d)) ELSE 0

\* One iteration of the loop body of read_csv_data on the dict d.  kind is
\* "skip" (continue), "record" (companies.append), or the exception raised:
\* "AttributeError" for None.strip(), "ValueError" for int(rank).
ProcessRow(d, yr) ==
    LET rankCell == Get(d, COL_RANK)
        rank == Strip(rankCell)
        nameCell == NameCell(d)
        name == Strip(nameCell)
        fullCell == Get(d, COL_FULL)
        iccCell == Get(d, COL_ICC)
        changeCell == Get(d, COL_CHANGE)
        change == parse_ranking_change(Strip(changeCell))
    IN  IF rankCell = None THEN [kind |-> "AttributeError"]
        ELSE IF ~RankAccepted(rank) THEN [kind |-> "skip"]
        ELSE IF nameCell = None THEN [kind |-> "AttributeError"]
        ELSE IF name = <<>> THEN [kind |-> "skip"]
        ELSE IF fullCell = None THEN [kind |-> "AttributeError"]
        ELSE IF iccCell = None THEN [kind |-> "AttributeError"]
        ELSE IF changeCell = None THEN [kind |-> "AttributeError"]
        ELSE IF ~PyInt(rank).ok THEN [kind |-> "ValueError"]
        ELSE [kind |-> "record",
              rec |-> [rank |-> PyInt(rank).val,
                       is_icc |-> (Strip(iccCell) = <<"Y">>),
                       name |-> name,
                       full_name |-> IF Strip(fullCell) = <<>> THEN name
                                     ELSE Strip(fullCell),
                       beneficiaries |-> Beneficiaries(d),
                       rank_change_direction |-> change[1],
                       rank_change_value |-> change[2],
                       year |-> yr]]

\* csv.DictReader skips a blank line (an empty row) before building a dict
RowOutcome(hdr, row, yr) ==
    IF row = <<>> THEN [kind |-> "skip"] ELSE ProcessRow(DictRow(hdr, row), yr)

\* read_csv_data on a whole file: the list built so far and the exception
\* that ended the loop ("None" when the loop ran to the end)
RECURSIVE ReadRows(_, _, _, _)
ReadRows(hdr, rs, yr, acc) ==
    IF rs = <<>> THEN [raised |-> "None", companies |-> acc]
    ELSE LET o == RowOutcome(hdr, Head(rs), yr)
         IN  IF o.kind = "record" THEN ReadRows(hdr, Tail(rs), yr, Append(acc, o.rec))
             ELSE IF o.kind = "skip" THEN ReadRows(hdr, Tail(rs), yr, acc)
             ELSE [raised |-> o.kind, companies |-> acc]

read_csv_data(hdr, rs, yr) == ReadRows(hdr, rs, yr, <<>>)

\* ---------------------------------------------------------------------
\* generate_heatmap_html: calculate_rank_changes
\* ---------------------------------------------------------------------
\* name_key = c['name'].lower().strip()
NameKey(c) == Strip(Lower(c.name))

\* prev_rank_map[name_key]: the dict is filled in list order, so a later
\* record with the same key overwrites an earlier one
InPrevRankMap(prev, key) == \E k \in 1..Len(prev) : NameKey(prev[k]) = key

PrevRank(prev, key) ==
    LET ks == {k \in 1..Len(prev) : NameKey(prev[k]) = key}
        last == CHOOSE k \in ks : \A j \in ks : j <= k
    IN  prev[last].rank

\* variant: the difference is taken the other way round
RankChange_Swapped(prev, c) ==
    IF InPrevRankMap(prev, NameKey(c))
    THEN LET change == c.rank - PrevRank(prev, NameKey(c))
         IN  IF change > 0
             THEN [c EXCEPT !.rank_change_direction = "up", !.rank_change_value = change]
             ELSE IF change < 0
             THEN [c EXCEPT !.rank_change_direction = "down",
                            !.rank_change_value = 0 - change]
             ELSE [c EXCEPT !.rank_change_direction = "None", !.rank_change_value = NoValue]
    ELSE [c EXCEPT !.rank_change_direction = "None", !.rank_change_value = NoValue]

\* variant: a new entrant keeps the fields parsed from its row
RankChange_KeepParsed(prev, c) ==
    IF InPrevRankMap(prev, NameKey(c))
    THEN LET change == PrevRank(prev, NameKey(c)) - c.rank
         IN  IF change > 0
             THEN [c EXCEPT !.rank_change_direction = "up", !.rank_change_value = change]
             ELSE IF change < 0
             THEN [c EXCEPT !.rank_change_direction = "down",
                            !.rank_change_value = 0 - change]
             ELSE [c EXCEPT !.rank_change_direction = "None", !.rank_change_value = NoValue]
    ELSE c

\* the body of "for c in current_companies": the record after the pass
RankChange(prev, c) ==
    IF InPrevRankMap(prev, NameKey(c))
    THEN LET change == PrevRank(prev, NameKey(c)) - c.rank
         IN  IF change > 0
             THEN [c EXCEPT !.rank_change_direction = "up", !.rank_change_value = change]
             ELSE IF change < 0
             THEN [c EXCEPT !.rank_change_direction = "down",
                            !.rank_change_value = 0 - change]
             ELSE [c EXCEPT !.rank_change_direction = "None", !.rank_change_value = NoValue]
    ELSE [c EXCEPT !.rank_change_direction = "None", !.rank_change_value = NoValue]

\* variant: the pass also renumbers the ranks of the current records
calculate_rank_changes_Rerank(prev, cur) ==
    IF prev = <<>> THEN cur
    ELSE [k \in 1..Len(cur) |-> [RankChange(prev, cur[k]) EXCEPT !.rank = k]]

\* the records are changed in place and the same list is returned
calculate_rank_changes(prev, cur) ==
    IF prev = <<>> \/ cur = <<>> THEN cur
    ELSE [k \in 1..Len(cur) |-> RankChange(prev, cur[k])]

\* ---------------------------------------------------------------------
\* generate_heatmap_html: generate_color, process_companies
\* ---------------------------------------------------------------------
\* brand_colors and brand_colors_lower: the table of brand colours and its
\* lower-case copy; a colour '#RRGGBB' is the record [hex |-> "RRGGBB"]
brand_colors ==
    (<<"A", "m", "a", "z", "o", "n">> :> [hex |-> "FF9900"]) @@
    (<<"M", "e", "t", "a">> :> [hex |-> "0081FB"]) @@
    (<<"M", "i", "c", "r", "o", "s", "o", "f", "t">> :> [hex |-> "00A4EF"]) @@
    (<<"P", "a", "y", "P", "a", "l">> :> [hex |-> "003087"]) @@
    (<<"C", "o", "m", "p", "u", "n", "n", "e", "l">> :> [hex |-> "8B4513"]) @@
    (<<"L", "i", "n", "k", "e", "d", "I", "n">> :> [hex |-> "0077B5"])

brand_colors_lower ==
    [k \in {Lower(n) : n \in DOMAIN brand_colors} |->
        brand_colors[CHOOSE n \in DOMAIN brand_colors : Lower(n) = k]]

HueIcc == 270
HueOther == 140

\* variant: the first sorted position gets the darkest, most saturated shade
generate_color_DarkFirst(is_icc, index, total) ==
    [hue |-> IF is_icc THEN HueIcc ELSE HueOther,
     saturation |-> <<30 * total - 15 * index, total>>,
     lightness |-> <<60 * total + 25 * index, total>>]

\* hsl(hue, saturation%, lightness%) with saturation = 15 + (index/total)*15
\* and lightness = 85 - (index/total)*25, kept as fractions over total
generate_color(is_icc, index, total) ==
    [hue |-> IF is_icc THEN HueIcc ELSE HueOther,
     saturation |-> <<15 * total + 15 * index, total>>,
     lightness |-> <<85 * total - 25 * index, total>>]

\* sorted(companies_list, key=beneficiaries, reverse=True): stable, records
\* of equal beneficiaries keep their order
SortedPosition(list, k) ==
    1 + Cardinality({j \in 1..Len(list) : list[j].beneficiaries > list[k].beneficiaries})
      + Cardinality({j \in 1..(k - 1) : list[j].beneficiaries = list[k].beneficiaries})

\* variant: records of equal beneficiaries come out in reverse input order
SortedByBeneficiaries_TiesReversed(list) ==
    [p \in 1..Len(list) |->
        list[CHOOSE k \in 1..Len(list) :
                1 + Cardinality({j \in 1..Len(list) :
                                    list[j].beneficiaries > list[k].beneficiaries})
                  + Cardinality({j \in (k + 1)..Len(list) :
                                    list[j].beneficiaries = list[k].beneficiaries}) = p]]

SortedByBeneficiaries(list) ==
    [p \in 1..Len(list) |->
        list[CHOOSE k \in 1..Len(list) : SortedPosition(list, k) = p]]

\* variant: the shade follows the rank column instead of the sorted position
process_companies_ShadeByRank(list) ==
    LET companies_sorted == SortedByBeneficiaries(list)
    IN  [p \in 1..Len(list) |->
            [name |-> companies_sorted[p].name,
             full_name |-> companies_sorted[p].full_name,
             beneficiaries |-> companies_sorted[p].beneficiaries,
             rank |-> companies_sorted[p].rank,
             is_icc |-> companies_sorted[p].is_icc,
             rank_change_direction |-> companies_sorted[p].rank_change_direction,
             rank_change_value |-> companies_sorted[p].rank_change_value,
             brand_color |-> generate_color(companies_sorted[p].is_icc,
                                            companies_sorted[p].rank - 1, Len(list))]]

process_companies(list) ==
    LET companies_sorted == SortedByBeneficiaries(list)
    IN  [p \in 1..Len(list) |->
            [name |-> companies_sorted[p].name,
             full_name |-> companies_sorted[p].full_name,
             beneficiaries |-> companies_sorted[p].beneficiaries,
             rank |-> companies_sorted[p].rank,
             is_icc |-> companies_sorted[p].is_icc,
             rank_change_direction |-> companies_sorted[p].rank_change_direction,
             rank_change_value |-> companies_sorted[p].rank_change_value,
             brand_color |-> generate_color(companies_sorted[p].is_icc, p - 1, Len(list))]]

\* ---------------------------------------------------------------------
\* generate_heatmap_html: the loop over the years and the document
\* ---------------------------------------------------------------------
\* years = sorted(all_years_data.keys())
SortedYears(data) ==
    LET ys == DOMAIN data
    IN  [p \in 1..Cardinality(ys) |->
            CHOOSE y \in ys : Cardinality({z \in ys : z < y}) = p - 1]

\* variant: the comparison pass is skipped
YearCompanies_NoPass(data, i) == data[SortedYears(data)[i]]

\* companies of years[i] after "if i > 0: calculate_rank_changes(...)"
\* (i counts from 1 here)
YearCompanies(data, i) ==
    IF i > 1
    THEN calculate_rank_changes(data[SortedYears(data)[i - 1]], data[SortedYears(data)[i]])
    ELSE data[SortedYears(data)[i]]

\* one iteration of "for i, year in enumerate(years)": all_years_data with
\* the year's records updated in place, and processed_years
GenStep(data, processed, i) ==
    LET y == SortedYears(data)[i]
        cs == YearCompanies(data, i)
    IN  [data |-> [data EXCEPT ![y] = cs],
         processed |-> (y :> process_companies(cs)) @@ processed]

RECURSIVE GenLoop(_, _, _)
GenLoop(data, processed, i) ==
    IF i > Cardinality(DOMAIN data) THEN [data |-> data, processed |-> processed]
    ELSE GenLoop(GenStep(data, processed, i).data,
                 GenStep(data, processed, i).processed, i + 1)

RECURSIVE Sum(_, _)
Sum(list, k) == IF k = 0 THEN 0 ELSE Sum(list, k - 1) + list[k].beneficiaries

\* variant: the total counts the records instead of adding their beneficiaries
Stats_TotalIsCount(list) ==
    [count |-> Len(list),
     total |-> Len(list),
     icc_count |-> Cardinality({k \in 1..Len(list) : list[k].is_icc})]

\* stats_by_year[year], computed from all_years_data after the loop
Stats(list) ==
    [count |-> Len(list),
     total |-> Sum(list, Len(list)),
     icc_count |-> Cardinality({k \in 1..Len(list) : list[k].is_icc})]

\* json.dumps of one record: None becomes null
JsonRecord(r) ==
    [r EXCEPT !.rank_change_direction = IF @ = "None" THEN "null" ELSE @]

DefaultYear(data) == CHOOSE y \in DOMAIN data : \A z \in DOMAIN data : z <= y

\* the data the template is filled with: the year buttons, the per-year
\* JSON arrays, the per-year statistics and the initial year
Document(data, processed) ==
    [years |-> SortedYears(data),
     years_json |-> [y \in DOMAIN processed |->
                        [p \in 1..Len(processed[y]) |-> JsonRecord(processed[y][p])]],
     stats |-> [y \in DOMAIN data |-> Stats(data[y])],
     default_year |-> DefaultYear(data)]

\* no document: nothing returned yet, no file at output_path
NoDocument == [years |-> <<>>]

generate_heatmap_html(data) ==
    Document(GenLoop(data, <<>>, 1).data, GenLoop(data, <<>>, 1).processed)

\* ---------------------------------------------------------------------
\* The script of the generated page: year selector, treemap cells and
\* detail view
\* ---------------------------------------------------------------------
LowerLetters ==
    <<"a", "b", "c", "d", "e", "f", "g", "h", "i", "j", "k", "l", "m",
      "n", "o", "p", "q", "r", "s", "t", "u", "v", "w", "x", "y", "z">>
UpperLetters ==
    <<"A", "B", "C", "D", "E", "F", "G", "H", "I", "J", "K", "L", "M",
      "N", "O", "P", "Q", "R", "S", "T", "U", "V", "W", "X", "Y", "Z">>

UpperChar(c) ==
    IF \E i \in DOMAIN LowerLetters : LowerLetters[i] = c
    THEN UpperLetters[CHOOSE i \in DOMAIN LowerLetters : LowerLetters[i] = c]
    ELSE c

\* String.prototype.toUpperCase()
toUpperCase(s) == [k \in 1..Len(s) |-> UpperChar(s[k])]

FidelityFullName ==
    <<"F", "I", "D", "E", "L", "I", "T", "Y", " ", "T", "E", "C",
      "H", "N", "O", "L", "O", "G", "Y", " ", "G", "R", "O", "U",
      "P", " ", "L", "L", "C", " ", "D", " ", "B", " ", "A", " ",
      "F", "I", "D", "E", "L", "I", "T", "Y", " ", "I", "N", "V",
      "E", "S", "T", "M", "E", "N", "T", "S">>

companyNameMapping ==
    (<<"A", "W", "S">> :> <<"A", "M", "A", "Z", "O", "N">>) @@
    (<<"A", "m", "a", "z", "o", "n">> :> <<"A", "M", "A", "Z", "O", "N">>) @@
    (<<"F", "i", "d", "e", "l", "i", "t", "y">> :> FidelityFullName) @@
    (<<"F", "i", "d", "e", "l", "i", "t", "y", " ", "I", "n", "v", "e", "s", "t", "m", "e", "n", "t", "s">> :>
        FidelityFullName)

\* Array.prototype.find, given the indices of the elements that pass the
\* test: the index of the first of them; 0 stands for undefined
find(passing) ==
    IF passing = {} THEN 0 ELSE CHOOSE k \in passing : \A j \in passing : k <= j

\* the tests of showCompanyDetail on the records of an array
Named(arr, companyName) == {k \in 1..Len(arr) : arr[k].name = companyName}

ByFullName(arr, fullName) == {k \in 1..Len(arr) : toUpperCase(arr[k].full_name) = fullName}

ByMapping(arr, companyName) ==
    {k \in 1..Len(arr) :
        \/ arr[k].name = companyName
        \/ toUpperCase(arr[k].full_name) = companyNameMapping[companyName]
        \/ arr[k].name = companyNameMapping[companyName]}

\* showCompanyDetail, first loop: the first year of availableYears that has
\* a record named companyName, as an index of doc.years; 0 when none has
ClickedYearIndex(doc, companyName) ==
    LET hits == {i \in 1..Len(doc.years) :
                    find(Named(doc.years_json[doc.years[i]], companyName)) # 0}
    IN  IF hits = {} THEN 0 ELSE CHOOSE i \in hits : \A j \in hits : i <= j

clickedCompany(doc, companyName) ==
    LET arr == doc.years_json[doc.years[ClickedYearIndex(doc, companyName)]]
    IN  arr[find(Named(arr, companyName))]

\* variant: a year's record is looked up by full name only
HistoryMatch_FullNameOnly(arr, companyName, fullName) ==
    find(ByFullName(arr, fullName))

\* showCompanyDetail, second loop: the record of one year taken into the
\* history, as an index of the year's array; 0 when none matches
HistoryMatch(arr, companyName, fullName) ==
    IF find(ByFullName(arr, fullName)) # 0 THEN find(ByFullName(arr, fullName))
    ELSE IF companyName \in DOMAIN companyNameMapping
    THEN find(ByMapping(arr, companyName))
    ELSE find(Named(arr, companyName))

HistoryEntry(y, company) ==
    [year |-> y, beneficiaries |-> company.beneficiaries,
     rank |-> company.rank, is_icc |-> company.is_icc]

\* the history over the first i years of sortedYears (availableYears in
\* ascending order)
RECURSIVE HistoryUpTo(_, _, _, _)
HistoryUpTo(doc, companyName, fullName, i) ==
    IF i = 0 THEN <<>>
    ELSE LET y == doc.years[i]
             arr == doc.years_json[y]
             k == HistoryMatch(arr, companyName, fullName)
             before == HistoryUpTo(doc, companyName, fullName, i - 1)
         IN  IF k # 0 THEN Append(before, HistoryEntry(y, arr[k])) ELSE before

\* showCompanyDetail(companyName): the alert raised or the detail view opened
showCompanyDetail(doc, companyName) ==
    IF ClickedYearIndex(doc, companyName) = 0
    THEN [alert |-> "company not found"]
    ELSE LET fullName == toUpperCase(clickedCompany(doc, companyName).full_name)
             history == HistoryUpTo(doc, companyName, fullName, Len(doc.years))
         IN  IF history = <<>>
             THEN [alert |-> "history not found"]
             ELSE [alert |-> "None", history |-> history, title |-> companyName]

\* createTreemap, "Add content to cells": the labels of one cell of the
\* given width and height
NameThreshold == 30
ValueThreshold == 35

Min(a, b) == IF a < b THEN a ELSE b

\* variant: the badge is shown for every record with a direction
CellContent_BadgeForAll(d, cellWidth, cellHeight) ==
    [data |-> d, width |-> cellWidth, height |-> cellHeight,
     rank |-> d.rank,
     icc_badge |-> d.is_icc,
     showName |-> Min(cellWidth, cellHeight) > NameThreshold,
     showValue |-> Min(cellWidth, cellHeight) > ValueThreshold,
     logoDisplayed |-> TRUE,
     nameDisplayed |-> Min(cellWidth, cellHeight) > NameThreshold,
     change |-> IF d.rank_change_direction # "null"
                THEN <<IF d.rank_change_direction = "up" THEN "UPARROW" ELSE "DOWNARROW",
                       d.rank_change_value>>
                ELSE <<>>]

\* the cell's rank, ICC badge, logo, name (displayed when showName, else
\* kept with display: none as the fallback of the logo), value (present
\* when showValue) and rank-change badge (arrow and value, or none)
CellContent(d, cellWidth, cellHeight) ==
    [data |-> d, width |-> cellWidth, height |-> cellHeight,
     rank |-> d.rank,
     icc_badge |-> d.is_icc,
     showName |-> Min(cellWidth, cellHeight) > NameThreshold,
     showValue |-> Min(cellWidth, cellHeight) > ValueThreshold,
     logoDisplayed |-> TRUE,
     nameDisplayed |-> Min(cellWidth, cellHeight) > NameThreshold,
     change |-> IF d.is_icc /\ d.rank_change_direction # "null"
                THEN <<IF d.rank_change_direction = "up" THEN "UPARROW" ELSE "DOWNARROW",
                       d.rank_change_value>>
                ELSE <<>>]

\* createTreemap: one cell per record of currentCompanies, in descending
\* order of beneficiaries (the order of the array), with the width and
\* height the d3 layout gave it
createTreemap(list, layout) ==
    [k \in 1..Len(list) |-> CellContent(list[k], layout[k][1], layout[k][2])]

\* ---------------------------------------------------------------------
\* Bounds and input sets
\* ---------------------------------------------------------------------
MaxLen == 4         \* longest text handed to parse_number / parse_ranking_change
MaxRows == 2        \* data rows of a CSV file
MaxRecs == 1        \* records of one year's list handed to the rank-delta pass
MaxPrev == 2        \* records of the previous year's list in a single rank-delta call
MaxYears == 3       \* configured years, FirstYear .. FirstYear + MaxYears - 1
MainRows == 1       \* data rows of a CSV file read by main
MaxList == 3        \* records of one year's list when the year is sorted and coloured
PageRecs == 2       \* records of one year's list in the document a page is opened on

FirstYear == 2016

\* years = list(range(2016, 2026)), cut to MaxYears years
Years == FirstYear..(FirstYear + MaxYears - 1)

\* all lists over a pool up to a length
Lists(pool, n) == UNION {[1..k -> pool] : k \in 0..n}

Rec(name, rank, ben, icc, change, yr) ==
    [rank |-> rank, is_icc |-> icc, name |-> name, full_name |-> name,
     beneficiaries |-> ben, rank_change_direction |-> change[1],
     rank_change_value |-> change[2], year |-> yr]

\* records as read_csv_data builds them: the name stripped and non-empty
RankNames == {<<"A", "c">>, <<"A", "C">>, <<"G">>}
RankValues == {1, 2, 3}
PrevPool == {Rec(n, r, 5, FALSE, <<"None", NoValue>>, FirstYear) :
                n \in RankNames, r \in RankValues}
CurPool == {Rec(n, r, 5, FALSE, ch, FirstYear + 1) :
                n \in RankNames, r \in RankValues,
                ch \in {<<"None", NoValue>>, <<"up", 0>>}}

GenPool ==
    { Rec(<<"A", "c">>, 1, 5, FALSE, <<"None", NoValue>>, 0),
      Rec(<<"A", "C">>, 2, 3, TRUE, <<"up", 1>>, 0),
      Rec(<<"G">>, 1, 5, FALSE, <<"down", 0>>, 0) }

\* records of longer lists: three sizes (400, 350, 100), both categories,
\* names that differ in case only, a name of the brand_colors table
ListPool ==
    { Rec(<<"A", "c">>, 1, 400, FALSE, <<"None", NoValue>>, 0),
      Rec(<<"M", "e", "t", "a">>, 2, 350, TRUE, <<"up", 1>>, 0),
      Rec(<<"A", "C">>, 3, 100, FALSE, <<"down", 2>>, 0) }

\* records of the documents a page is opened on: one short name under two
\* full names, and the full name companyNameMapping gives for that short
\* name, in two letter cases under two short names; a short name without
\* an entry in companyNameMapping under two full names
PageRec(name, full_name, rank, ben, icc, change) ==
    [Rec(name, rank, ben, icc, change, 0) EXCEPT !.full_name = full_name]

PagePool ==
    { PageRec(<<"A", "W", "S">>, <<"A", "m", "a", "z", "o", "n">>, 1, 9, TRUE, <<"up", 1>>),
      PageRec(<<"A", "W", "S">>, <<"Q">>, 2, 7, FALSE, <<"up", 1>>),
      PageRec(<<"G">>, <<"A", "M", "A", "Z", "O", "N">>, 3, 5, TRUE, <<"None", NoValue>>),
      PageRec(<<"G">>, <<"H">>, 4, 5, FALSE, <<"None", NoValue>>) }

\* lists in the order of a ranked CSV file: beneficiaries strictly descending
RankedLists(pool, n) ==
    {l \in Lists(pool, n) :
        \A i, j \in 1..Len(l) : i < j => l[i].beneficiaries > l[j].beneficiaries}

PageYears == {FirstYear, FirstYear + 1}

\* the arguments switchYear is called with: the years of the page and the
\* year after them
SwitchArgs == FirstYear..(FirstYear + 2)

\* width and height of a cell as the d3 layout may round them: both labels
\* fit, the name only, none
CellSizes == {<<36, 90>>, <<90, 35>>, <<30, 30>>}
TreemapLayouts(n) == {[k \in 1..n |-> d] : d \in CellSizes}

\* the year's list as main stores it: read_csv_data tags every record
Tagged(list, y) == [k \in 1..Len(list) |-> [list[k] EXCEPT !.year = y]]

\* the CSV files main may find: missing, or a header and data rows
MainHeader == <<COL_RANK, COL_NAME, COL_APPROVED>>
MainRowPool ==
    { << <<"1">>, <<"A", "c">>, <<"5">> >>,
      << <<"2">>, <<"G">>, <<"7">> >>,
      << <<"sup2">>, <<"G">>, <<"7">> >> }
Missing == [exists |-> FALSE]
MainFiles ==
    {Missing} \cup
    {[exists |-> TRUE, fieldnames |-> MainHeader, rows |-> rs] :
        rs \in Lists(MainRowPool, MainRows)}

\* CSV files with a rank-change column: a glyph without digits, a glyph
\* with a digit, an arrow without its variation selector
ChangeHeader == <<COL_RANK, COL_NAME, COL_APPROVED, COL_CHANGE>>
ChangeRowPool ==
    { << <<"1">>, <<"A", "c">>, <<"5">>, <<"DN", "VS">> >>,
      << <<"2">>, <<"A", "c">>, <<"7">>, <<"UPA", "VS", "2">> >>,
      << <<"2">>, <<"G">>, <<"7">>, <<"DN", "1">> >> }
ChangeFiles ==
    {Missing} \cup
    {[exists |-> TRUE, fieldnames |-> ChangeHeader, rows |-> rs] :
        rs \in Lists(ChangeRowPool, MainRows)}

\* all texts over an alphabet up to a length
Texts(alphabet, n) == UNION {[1..k -> alphabet] : k \in 0..n}

NumberAlphabet == {"0", "1", "2", ",", "\"", "'", " ", "-", "_", "x", "sup2"}
ChangeAlphabet == {"DN", "UPA", "VS", "1", "2", " "}

RECURSIVE RowsOfLength(_, _)
RowsOfLength(cells, n) ==
    IF n = 0 THEN {<<>>}
    ELSE {Append(r, c) : r \in RowsOfLength(cells, n - 1), c \in cells[n]}

\* CSV layouts: the header row and, per column, the cell texts rows are
\* drawn from; long holds rows with more cells than the header
RankTexts == {<<>>, <<"1">>, <<"0">>, <<" ", "2">>, <<"x">>, <<"sup2">>, <<"-", "1">>}

Layouts ==
    { [fieldnames |-> <<COL_RANK, COL_SHORT>>,
       cells |-> <<RankTexts, {<<>>, <<" ">>, <<"A", "c", " ">>}>>,
       long |-> {<< <<"1">>, <<"A", "c">>, <<"x">> >>}],
      [fieldnames |-> <<COL_SHORT, COL_NAME, COL_RANK>>,
       cells |-> <<{<<>>, <<" ">>, <<"A", "c">>}, {<<>>, <<"G">>}, {<<"1">>, <<"x">>}>>,
       long |-> {}],
      [fieldnames |-> <<COL_RANK, COL_NAME, COL_APPROVED, COL_TOTAL>>,
       cells |-> <<{<<"1">>}, {<<"G">>},
                   {<<>>, <<"5">>, <<"1", ",", "2">>, <<"x">>, <<"-", "3">>},
                   {<<>>, <<"7">>, <<"x">>}>>,
       long |-> {}],
      [fieldnames |-> <<COL_RANK, COL_NAME, COL_FULL, COL_ICC, COL_CHANGE>>,
       cells |-> <<{<<"1">>, <<"2">>}, {<<"G">>}, {<<>>, <<"G", "x">>},
                   {<<"Y">>, <<"N">>},
                   {<<>>, <<"DN", "VS", "1">>, <<"UPA", "VS">>}>>,
       long |-> {}] }

\* every row shape a file of the layout can hold: blank, short, full, long
RowsOf(L) ==
    UNION {RowsOfLength(L.cells, n) : n \in 0..Len(L.fieldnames)} \cup L.long

LayoutOf(hdr) == CHOOSE L \in Layouts : L.fieldnames = hdr

\* ---------------------------------------------------------------------
\* Variable groups
\* ---------------------------------------------------------------------
parseVars == <<value, result>>
readVars == <<header, rows, companies, raised, year>>
rankVars == <<prev_companies, current_companies>>
genVars == <<all_years_data, processed_years, idx, html_content>>
mainVars == <<files, output, exit_status>>
pageVars == <<currentYear, currentCompanies, activeButtons, shownStats, treemap,
              companyHistory, modalShown, modalTitle, alerted, call>>

ParseIdle == value = None /\ result = 0
ReadIdle == header = <<>> /\ rows = <<>> /\ companies = <<>> /\ raised = "None" /\ year = 0
RankIdle == prev_companies = <<>> /\ current_companies = <<>>
GenIdle ==
    all_years_data = <<>> /\ processed_years = <<>> /\ idx = 0 /\ html_content = NoDocument
MainIdle == files = <<>> /\ output = NoDocument /\ exit_status = NoValue
PageIdle ==
    /\ currentYear = 0 /\ currentCompanies = <<>> /\ activeButtons = {} /\ shownStats = <<>>
    /\ treemap = <<>> /\ companyHistory = <<>> /\ modalShown = FALSE /\ modalTitle = <<>>
    /\ alerted = "None" /\ call = <<>>

\* ---------------------------------------------------------------------
\* SpecParse: calls of the two text parsers
\* ---------------------------------------------------------------------
InitParse ==
    /\ pc = "idle" /\ ParseIdle /\ ReadIdle /\ RankIdle /\ GenIdle /\ MainIdle /\ PageIdle

ParseNumber ==
    /\ pc = "idle"
    /\ \E v \in Texts(NumberAlphabet, MaxLen) \cup {None} :
        /\ value' = v
        /\ result' = parse_number(v)
    /\ pc' = "parse_number"
    /\ UNCHANGED <<readVars, rankVars, genVars, mainVars, pageVars>>

ParseRankingChange ==
    /\ pc = "idle"
    /\ \E v \in Texts(ChangeAlphabet, MaxLen) \cup {None} :
        /\ value' = v
        /\ result' = parse_ranking_change(v)
    /\ pc' = "parse_ranking_change"
    /\ UNCHANGED <<readVars, rankVars, genVars, mainVars, pageVars>>

NextParse == ParseNumber \/ ParseRankingChange

SpecParse == InitParse /\ [][NextParse]_vars

\* ---------------------------------------------------------------------
\* SpecRead: read_csv_data, one row of the file per step
\* ---------------------------------------------------------------------
InitRead ==
    /\ pc = "reading"
    /\ header \in {L.fieldnames : L \in Layouts}
    /\ year \in {FirstYear, FirstYear + 1}
    /\ rows = <<>> /\ companies = <<>> /\ raised = "None"
    /\ ParseIdle /\ RankIdle /\ GenIdle /\ MainIdle /\ PageIdle

\* for row in reader: ... (one iteration)
ReadRow ==
    /\ pc = "reading"
    /\ Len(rows) < MaxRows
    /\ \E row \in RowsOf(LayoutOf(header)) :
        LET o == RowOutcome(header, row, year)
        IN  /\ rows' = Append(rows, row)
            /\ companies' = IF o.kind = "record" THEN Append(companies, o.rec)
                            ELSE companies
            /\ raised' = IF o.kind \in {"record", "skip"} THEN "None" ELSE o.kind
            /\ pc' = IF o.kind \in {"record", "skip"} THEN "reading" ELSE "raised"
    /\ UNCHANGED <<header, year, parseVars, rankVars, genVars, mainVars, pageVars>>

\* end of file: return companies
ReadReturn ==
    /\ pc = "reading"
    /\ pc' = "returned"
    /\ UNCHANGED <<readVars, parseVars, rankVars, genVars, mainVars, pageVars>>

NextRead == ReadRow \/ ReadReturn

SpecRead == InitRead /\ [][NextRead]_vars

\* ---------------------------------------------------------------------
\* SpecRank: one call of calculate_rank_changes
\* ---------------------------------------------------------------------
InitRank ==
    /\ pc = "rank_call"
    /\ prev_companies \in Lists(PrevPool, MaxPrev)
    /\ current_companies \in Lists(CurPool, MaxRecs)
    /\ ParseIdle /\ ReadIdle /\ GenIdle /\ MainIdle /\ PageIdle

CalculateRankChanges ==
    /\ pc = "rank_call"
    /\ current_companies' = calculate_rank_changes(prev_companies, current_companies)
    /\ pc' = "rank_done"
    /\ UNCHANGED <<prev_companies, parseVars, readVars, genVars, mainVars, pageVars>>

NextRank == CalculateRankChanges

SpecRank == InitRank /\ [][NextRank]_vars

\* ---------------------------------------------------------------------
\* SpecGen: generate_heatmap_html on the dict main builds (every loaded
\* year has at least one record), one year of the loop per step
\* ---------------------------------------------------------------------
InitGen ==
    /\ pc = "gen_loop"
    /\ \E ys \in (SUBSET Years) \ {{}} :
         \E u \in [ys -> Lists(GenPool, MaxRecs) \ {<<>>}] :
            all_years_data = [y \in ys |-> Tagged(u[y], y)]
    /\ processed_years = <<>> /\ idx = 0 /\ html_content = NoDocument
    /\ ParseIdle /\ ReadIdle /\ RankIdle /\ MainIdle /\ PageIdle

GenYear ==
    /\ pc = "gen_loop"
    /\ idx < Cardinality(DOMAIN all_years_data)
    /\ all_years_data' = GenStep(all_years_data, processed_years, idx + 1).data
    /\ processed_years' = GenStep(all_years_data, processed_years, idx + 1).processed
    /\ idx' = idx + 1
    /\ UNCHANGED <<pc, html_content, parseVars, readVars, rankVars, mainVars, pageVars>>

GenFinish ==
    /\ pc = "gen_loop"
    /\ idx = Cardinality(DOMAIN all_years_data)
    /\ html_content' = Document(all_years_data, processed_years)
    /\ pc' = "gen_done"
    /\ UNCHANGED <<all_years_data, processed_years, idx,
                   parseVars, readVars, rankVars, mainVars, pageVars>>

NextGen == GenYear \/ GenFinish

SpecGen == InitGen /\ [][NextGen]_vars

\* ---------------------------------------------------------------------
\* SpecGenLists: generate_heatmap_html on one or two years whose lists
\* hold up to MaxList records
\* ---------------------------------------------------------------------
InitGenLists ==
    /\ pc = "gen_loop"
    /\ \E ys \in (SUBSET {FirstYear, FirstYear + 1}) \ {{}} :
         \E u \in [ys -> Lists(ListPool, MaxList) \ {<<>>}] :
            all_years_data = [y \in ys |-> Tagged(u[y], y)]
    /\ processed_years = <<>> /\ idx = 0 /\ html_content = NoDocument
    /\ ParseIdle /\ ReadIdle /\ RankIdle /\ MainIdle /\ PageIdle

SpecGenLists == InitGenLists /\ [][NextGen]_vars

\* ---------------------------------------------------------------------
\* SpecGenTies: generate_heatmap_html on one or two years whose lists
\* hold up to MaxList records, two of them with equal beneficiaries
\* ---------------------------------------------------------------------
InitGenTies ==
    /\ pc = "gen_loop"
    /\ \E ys \in (SUBSET {FirstYear, FirstYear + 1}) \ {{}} :
         \E u \in [ys -> Lists(GenPool, MaxList) \ {<<>>}] :
            all_years_data = [y \in ys |-> Tagged(u[y], y)]
    /\ processed_years = <<>> /\ idx = 0 /\ html_content = NoDocument
    /\ ParseIdle /\ ReadIdle /\ RankIdle /\ MainIdle /\ PageIdle

SpecGenTies == InitGenTies /\ [][NextGen]_vars

\* ---------------------------------------------------------------------
\* SpecMain: main
\* ---------------------------------------------------------------------
InitMain ==
    /\ pc = "main_loop"
    /\ files \in [Years -> MainFiles]
    /\ all_years_data = <<>> /\ processed_years = <<>> /\ idx = 0
    /\ html_content = NoDocument /\ output = NoDocument /\ exit_status = NoValue
    /\ ParseIdle /\ ReadIdle /\ RankIdle /\ PageIdle

\* the year the loop "for year in years" is at
LoopYear == FirstYear + idx

\* csv_path.exists(): companies = read_csv_data(csv_path, year=year);
\* if companies: all_years_data[year] = companies.  An exception raised by
\* read_csv_data is not caught and ends main.
MainReadYear ==
    /\ pc = "main_loop" /\ LoopYear \in Years
    /\ files[LoopYear].exists
    /\ LET r == read_csv_data(files[LoopYear].fieldnames, files[LoopYear].rows, LoopYear)
       IN  IF r.raised # "None"
           THEN /\ pc' = "main_raised" /\ raised' = r.raised
                /\ exit_status' = 1
                /\ UNCHANGED <<all_years_data, idx>>
           ELSE /\ all_years_data' =
                     IF r.companies # <<>>
                     THEN (LoopYear :> r.companies) @@ all_years_data
                     ELSE all_years_data
                /\ idx' = idx + 1
                /\ UNCHANGED <<pc, raised, exit_status>>
    /\ UNCHANGED <<processed_years, html_content, files, output, header, rows,
                   companies, year, parseVars, rankVars, pageVars>>

\* variant: a missing file ends the run
MainWarnMissing_Abort ==
    /\ pc = "main_loop" /\ LoopYear \in Years
    /\ ~files[LoopYear].exists
    /\ pc' = "main_no_data"
    /\ UNCHANGED <<idx, all_years_data, processed_years, html_content, mainVars,
                   parseVars, readVars, rankVars, pageVars>>

\* else: print(f"Warning: {year} CSV not found at {csv_path}")
MainWarnMissing ==
    /\ pc = "main_loop" /\ LoopYear \in Years
    /\ ~files[LoopYear].exists
    /\ idx' = idx + 1
    /\ UNCHANGED <<pc, all_years_data, processed_years, html_content, mainVars,
                   parseVars, readVars, rankVars, pageVars>>

\* variant: the empty run ends with exit status 1
MainNoData_ExitOne ==
    /\ pc = "main_loop" /\ LoopYear \notin Years
    /\ DOMAIN all_years_data = {}
    /\ pc' = "main_no_data"
    /\ exit_status' = 1
    /\ UNCHANGED <<genVars, files, output, parseVars, readVars, rankVars, pageVars>>

\* if not all_years_data: print("Error: No data found for any year!"); return
\* main returns None and the script ends with exit status 0
MainNoData ==
    /\ pc = "main_loop" /\ LoopYear \notin Years
    /\ DOMAIN all_years_data = {}
    /\ pc' = "main_no_data"
    /\ exit_status' = 0
    /\ UNCHANGED <<genVars, files, output, parseVars, readVars, rankVars, pageVars>>

\* html_content = generate_heatmap_html(all_years_data)
MainGenerate ==
    /\ pc = "main_loop" /\ LoopYear \notin Years
    /\ DOMAIN all_years_data # {}
    /\ all_years_data' = GenLoop(all_years_data, <<>>, 1).data
    /\ processed_years' = GenLoop(all_years_data, <<>>, 1).processed
    /\ html_content' = generate_heatmap_html(all_years_data)
    /\ pc' = "main_generated"
    /\ UNCHANGED <<idx, mainVars, parseVars, readVars, rankVars, pageVars>>

\* with open(output_path, 'w') as f: f.write(html_content); main returns
MainWrite ==
    /\ pc = "main_generated"
    /\ output' = html_content
    /\ exit_status' = 0
    /\ pc' = "main_written"
    /\ UNCHANGED <<files, genVars, parseVars, readVars, rankVars, pageVars>>

NextMain == MainReadYear \/ MainWarnMissing \/ MainNoData \/ MainGenerate \/ MainWrite

SpecMain == InitMain /\ [][NextMain]_vars

\* ---------------------------------------------------------------------
\* SpecMainChange: main on CSV files that have a rank-change column; the
\* files of the first three years may exist, those of the later years are
\* missing
\* ---------------------------------------------------------------------
InitMainChange ==
    /\ pc = "main_loop"
    /\ \E f \in [FirstYear..(FirstYear + 2) -> ChangeFiles] :
          files = [y \in Years |-> IF y \in DOMAIN f THEN f[y] ELSE Missing]
    /\ all_years_data = <<>> /\ processed_years = <<>> /\ idx = 0
    /\ html_content = NoDocument /\ output = NoDocument /\ exit_status = NoValue
    /\ ParseIdle /\ ReadIdle /\ RankIdle /\ PageIdle

SpecMainChange == InitMainChange /\ [][NextMain]_vars

\* ---------------------------------------------------------------------
\* SpecPage: the generated page in the browser, from its load on
\* ---------------------------------------------------------------------
\* the script's constants, as the template fills them in
allYearsData == html_content.years_json
allYearsStats == html_content.stats
availableYears == html_content.years

\* the page after its load: currentYear = default_year, its button active,
\* the statistics of default_year in the template, createTreemap() run
InitPage ==
    /\ pc = "page"
    /\ \E ys \in (SUBSET PageYears) \ {{}} :
         \E u \in [ys -> RankedLists(PagePool, PageRecs) \ {<<>>}] :
            LET data == [y \in ys |-> Tagged(u[y], y)]
            IN  /\ all_years_data = GenLoop(data, <<>>, 1).data
                /\ processed_years = GenLoop(data, <<>>, 1).processed
                /\ html_content = generate_heatmap_html(data)
    /\ idx = Cardinality(DOMAIN all_years_data)
    /\ currentYear = html_content.default_year
    /\ currentCompanies = allYearsData[currentYear]
    /\ activeButtons = {currentYear}
    /\ shownStats = html_content.stats[html_content.default_year]
    /\ \E layout \in TreemapLayouts(Len(currentCompanies)) :
          treemap = createTreemap(currentCompanies, layout)
    /\ companyHistory = <<>> /\ modalShown = FALSE /\ modalTitle = <<>>
    /\ alerted = "None" /\ call = <<"load">>
    /\ ParseIdle /\ ReadIdle /\ RankIdle /\ MainIdle

\* variant: switchYear without its first line
SwitchYear_NoGuard ==
    /\ pc = "page"
    /\ \E y \in SwitchArgs :
          /\ call' = <<"switchYear", y>>
          /\ currentYear' = y
          /\ currentCompanies' = IF y \in DOMAIN allYearsData THEN allYearsData[y] ELSE <<>>
          /\ activeButtons' = {y}
          /\ shownStats' = IF y \in DOMAIN allYearsStats THEN allYearsStats[y] ELSE shownStats
          /\ \E layout \in TreemapLayouts(Len(currentCompanies')) :
                treemap' = createTreemap(currentCompanies', layout)
    /\ UNCHANGED <<companyHistory, modalShown, modalTitle, alerted,
                   pc, parseVars, readVars, rankVars, genVars, mainVars>>

\* variant: switchYear without its call of updateStats
SwitchYear_StaleStats ==
    /\ pc = "page"
    /\ \E y \in SwitchArgs :
          /\ call' = <<"switchYear", y>>
          /\ IF y \notin DOMAIN allYearsData
             THEN UNCHANGED <<currentYear, currentCompanies, activeButtons, treemap>>
             ELSE /\ currentYear' = y
                  /\ currentCompanies' = allYearsData[y]
                  /\ activeButtons' = {y}
                  /\ \E layout \in TreemapLayouts(Len(currentCompanies')) :
                        treemap' = createTreemap(currentCompanies', layout)
    /\ UNCHANGED <<shownStats, companyHistory, modalShown, modalTitle, alerted,
                   pc, parseVars, readVars, rankVars, genVars, mainVars>>

\* switchYear(year): returns at once when allYearsData has no entry for
\* year; otherwise sets currentYear and currentCompanies, moves the class
\* 'active' to the year's button, updateStats(...) and updateTreemap()
SwitchYear ==
    /\ pc = "page"
    /\ \E y \in SwitchArgs :
          /\ call' = <<"switchYear", y>>
          /\ IF y \notin DOMAIN allYearsData
             THEN UNCHANGED <<currentYear, currentCompanies, activeButtons,
                              shownStats, treemap>>
             ELSE /\ currentYear' = y
                  /\ currentCompanies' = allYearsData[y]
                  /\ activeButtons' = {y}
                  /\ shownStats' =
                        IF y \in DOMAIN allYearsStats THEN allYearsStats[y] ELSE shownStats
                  /\ \E layout \in TreemapLayouts(Len(currentCompanies')) :
                        treemap' = createTreemap(currentCompanies', layout)
    /\ UNCHANGED <<companyHistory, modalShown, modalTitle, alerted,
                   pc, parseVars, readVars, rankVars, genVars, mainVars>>

\* a click on a cell: showCompanyDetail(d.data.name), then
\* createCompanyChart(companyHistory) in the opened detail view; while the
\* detail view is shown it covers the cells and takes the clicks
ClickCell ==
    /\ pc = "page"
    /\ ~modalShown
    /\ \E k \in 1..Len(treemap) :
          LET companyName == treemap[k].data.name
              r == showCompanyDetail(html_content, companyName)
          IN  /\ call' = <<"click">>
              /\ IF r.alert # "None"
                 THEN /\ alerted' = r.alert
                      /\ UNCHANGED <<companyHistory, modalShown, modalTitle>>
                 ELSE /\ companyHistory' = r.history
                      /\ modalShown' = TRUE
                      /\ modalTitle' = r.title
                      /\ UNCHANGED alerted
    /\ UNCHANGED <<currentYear, currentCompanies, activeButtons, shownStats, treemap,
                   pc, parseVars, readVars, rankVars, genVars, mainVars>>

\* onerror of a cell's logo image: the image is hidden and the element
\* after it, the cell's name, is displayed
LogoError ==
    /\ pc = "page"
    /\ \E k \in 1..Len(treemap) :
          /\ treemap[k].logoDisplayed
          /\ treemap' = [treemap EXCEPT ![k].logoDisplayed = FALSE,
                                        ![k].nameDisplayed = TRUE]
          /\ call' = <<"onerror">>
    /\ UNCHANGED <<currentYear, currentCompanies, activeButtons, shownStats,
                   companyHistory, modalShown, modalTitle, alerted,
                   pc, parseVars, readVars, rankVars, genVars, mainVars>>

\* closeModal()
CloseModal ==
    /\ pc = "page"
    /\ modalShown' = FALSE
    /\ call' = <<"closeModal">>
    /\ UNCHANGED <<currentYear, currentCompanies, activeButtons, shownStats, treemap,
                   companyHistory, modalTitle, alerted,
                   pc, parseVars, readVars, rankVars, genVars, mainVars>>

NextPage == SwitchYear \/ ClickCell \/ LogoError \/ CloseModal

SpecPage == InitPage /\ [][NextPage]_vars

\* ---------------------------------------------------------------------
\* SpecLoader: the record loader, either a parser call or a file read
\* ---------------------------------------------------------------------
SpecLoader == (InitParse \/ InitRead) /\ [][NextParse \/ NextRead]_vars

\* =====================================================================
\* Properties
\* =====================================================================
Last(s) == s[Len(s)]

\* the dict of the k-th row consumed by read_csv_data
RowDict(k) == DictRow(header, rows[k])

\* a cell that is absent, empty or only whitespace
Blank(v) == v = None \/ Strip(v) = <<>>

\* a rank field that is present and a plain decimal number
PlainDecimal(v) ==
    v # None /\ Strip(v) # <<>> /\ \A k \in 1..Len(Strip(v)) : Strip(v)[k] \in AsciiDigits

RECURSIVE DecimalValue(_)
DecimalValue(s) ==
    IF s = <<>> THEN 0
    ELSE 10 * DecimalValue(SubSeq(s, 1, Len(s) - 1)) + DigitValue(Last(s))

\* the claim's reference for one current record: the previous year's
\* records that bear the same name up to letter case (when several do, the
\* one the lookup ends up holding is the last of them)
SameName(a, b) == Lower(a.name) = Lower(b.name)

RefFound(prev, c) == \E k \in 1..Len(prev) : SameName(prev[k], c)

RefDelta(prev, c) ==
    LET ks == {k \in 1..Len(prev) : SameName(prev[k], c)}
        last == CHOOSE k \in ks : \A j \in ks : j <= k
    IN  prev[last].rank - c.rank

RefDirection(prev, c) ==
    IF ~RefFound(prev, c) THEN "None"
    ELSE IF RefDelta(prev, c) > 0 THEN "up"
    ELSE IF RefDelta(prev, c) < 0 THEN "down"
    ELSE "None"

RefMagnitude(prev, c) ==
    IF RefDelta(prev, c) < 0 THEN 0 - RefDelta(prev, c) ELSE RefDelta(prev, c)

AgreesWithReference(prev, c, after) ==
    /\ after.rank_change_direction = RefDirection(prev, c)
    /\ after.rank_change_direction \in {"up", "down"} =>
            after.rank_change_value = RefMagnitude(prev, c)

\* C1: calculate_rank_changes on a non-empty previous-year list sets the
\* rank-change fields of every current record to the reference: name looked
\* up among the previous year's names without regard to letter case;
\* delta = previous rank - current rank; delta > 0 is up by delta, delta < 0
\* is down by |delta|, delta = 0 and a name not found are none.
C1_RankChangeReference ==
    [][(pc = "rank_call" /\ prev_companies # <<>>) =>
          /\ Len(current_companies') = Len(current_companies)
          /\ \A k \in 1..Len(current_companies) :
                AgreesWithReference(prev_companies, current_companies[k],
                                    current_companies'[k])]_vars

C1_Witness ==
    /\ pc = "rank_done"
    /\ \E j \in 1..Len(prev_companies), k \in 1..Len(current_companies) :
        /\ prev_companies[j].name # current_companies[k].name
        /\ SameName(prev_companies[j], current_companies[k])
        /\ prev_companies[j].rank = 3 /\ current_companies[k].rank = 1
        /\ current_companies[k].rank_change_direction = "up"
        /\ current_companies[k].rank_change_value = 2

\* the rank-change fields as json.dumps writes them
JsonDirection(d) == IF d = "None" THEN "null" ELSE d

\* a year's list with the rank-change fields parsed from the rows removed
WithoutParsed(list) ==
    [k \in 1..Len(list) |->
        [list[k] EXCEPT !.rank_change_direction = "None", !.rank_change_value = NoValue]]

\* C2: for a year that is compared against a previous year's list, the
\* serialized rank-change fields are the computed ones whatever was parsed
\* from the rows: the year's processed list is the one obtained from the
\* same records without their parsed fields, and the document carries the
\* reference direction and magnitude.
C2_ComparedYearStep ==
    (pc = "gen_loop" /\ idx >= 1 /\ idx' = idx + 1) =>
        LET y == SortedYears(all_years_data)[idx + 1]
            prev == all_years_data[SortedYears(all_years_data)[idx]]
        IN  processed_years'[y] =
                process_companies(
                    calculate_rank_changes(prev, WithoutParsed(all_years_data[y])))

C2_Serialized ==
    pc = "gen_done" =>
        \A i \in 2..Len(html_content.years) :
            LET y == html_content.years[i]
                prev == all_years_data[html_content.years[i - 1]]
            IN  \A p \in 1..Len(html_content.years_json[y]) :
                    LET r == html_content.years_json[y][p]
                    IN  /\ r.rank_change_direction = JsonDirection(RefDirection(prev, r))
                        /\ r.rank_change_value =
                             IF RefDirection(prev, r) = "None" THEN NoValue
                             ELSE RefMagnitude(prev, r)

C2_ComputedSupersedesParsed == [][C2_ComparedYearStep]_vars /\ []C2_Serialized

\* the only record named "AC" in the input was parsed as up 1
C2_Witness ==
    /\ pc = "gen_done"
    /\ \E y \in DOMAIN html_content.years_json :
        /\ html_content.years_json[y][1].name = <<"A", "C">>
        /\ html_content.years_json[y][1].rank_change_direction = "down"
        /\ html_content.years_json[y][1].rank_change_value = 1

\* a serialized record's direction is populated only with a same-named
\* record of a different rank in the list of the preceding loaded year
PopulatedOnlyWithPrior(i) ==
    LET y == html_content.years[i]
    IN  \A p \in 1..Len(html_content.years_json[y]) :
            LET r == html_content.years_json[y][p]
            IN  r.rank_change_direction \in {"up", "down"} =>
                    /\ i > 1
                    /\ \E k \in 1..Len(all_years_data[html_content.years[i - 1]]) :
                         LET q == all_years_data[html_content.years[i - 1]][k]
                         IN  SameName(q, r) /\ q.rank # r.rank

\* C3 as stated: in every serialized record of every loaded year, the
\* earliest included, the direction is populated only when a same-named
\* company existed in the prior year's set with a different rank.
C3_PopulatedOnlyWithPriorYear ==
    pc = "gen_done" =>
        \A i \in 1..Len(html_content.years) : PopulatedOnlyWithPrior(i)

\* C3 amended: the same for every loaded year but the earliest, the prior
\* set being that of the preceding loaded year.
C3_PopulatedOnlyWithPriorYear_LaterYears ==
    pc = "gen_done" =>
        \A i \in 2..Len(html_content.years) : PopulatedOnlyWithPrior(i)

C3_Witness ==
    /\ pc = "gen_done" /\ Len(html_content.years) >= 2
    /\ html_content.years_json[html_content.years[1]][1].name = <<"A", "C">>
    /\ html_content.years_json[html_content.years[2]][1].name = <<"A", "c">>
    /\ html_content.years_json[html_content.years[2]][1].rank_change_direction = "up"
    /\ html_content.years_json[html_content.years[2]][1].rank_change_value = 1

\* C4: every record returned by read_csv_data has rank > 0 and
\* beneficiaries >= 0, whatever the CSV content.
C4_RankPositiveBeneficiariesNonNegative ==
    \A k \in 1..Len(companies) :
        companies[k].rank > 0 /\ companies[k].beneficiaries >= 0

\* C5: read_csv_data raises nothing; it skips the rows whose rank is
\* missing, empty or non-numeric and the rows without a company name, and
\* returns one record per remaining row, in file order, tagged with the year.
RemainingRow(row) ==
    /\ row # <<>>
    /\ PlainDecimal(Get(DictRow(header, row), COL_RANK))
    /\ ~(Blank(Get(DictRow(header, row), COL_SHORT))
            /\ Blank(Get(DictRow(header, row), COL_NAME)))

C5_SkipsBadRowsKeepsTheRest ==
    (pc \in {"reading", "returned", "raised"}) =>
        LET kept == SelectSeq(rows, RemainingRow)
        IN  /\ raised = "None"
            /\ Len(companies) = Len(kept)
            /\ \A k \in 1..Len(companies) :
                /\ companies[k].year = year
                /\ companies[k].rank =
                     DecimalValue(Strip(Get(DictRow(header, kept[k]), COL_RANK)))

\* C6: no exception propagates from read_csv_data for any row shape.
C6_NoExceptionPropagates == raised = "None" /\ pc # "raised"

\* C7: parse_number of a re-formatted decimal text (commas, quotes and
\* spaces inserted anywhere around or between the digits of n) is n.
FormatChars == {",", "\"", "'", " "}

Reformatted(v) ==
    /\ v # None
    /\ \A k \in 1..Len(v) : v[k] \in AsciiDigits \cup FormatChars
    /\ \E k \in 1..Len(v) : v[k] \in AsciiDigits

C7_ReformattingInvariant ==
    (pc = "parse_number" /\ Reformatted(value)) =>
        result = DecimalValue(SelectSeq(value, LAMBDA c : c \in AsciiDigits))

C7_Witness ==
    pc = "parse_number" /\ value = <<" ", "1", ",", "2">> /\ result = 12

\* C8: a beneficiaries value that is missing, empty or not an integer
\* after cleaning gives 0: parse_number returns 0 for it, and the row it
\* stands in is emitted, with beneficiaries = 0, exactly as the same row
\* with a well-formed beneficiaries value would have been.
NotAnInteger(v) == v = None \/ v = <<>> \/ ~PyInt(Cleaned(v)).ok

WithGoodBeneficiaries(d) == (COL_APPROVED :> <<"5">>) @@ d

C8_ParseNumberStep ==
    (pc' = "parse_number" /\ NotAnInteger(value')) => result' = 0

C8_ReadRowStep ==
    (rows' # rows /\ Last(rows') # <<>>) =>
        LET d == DictRow(header, Last(rows'))
            good == ProcessRow(WithGoodBeneficiaries(d), year)
        IN  (NotAnInteger(BeneficiariesCell(d)) /\ good.kind = "record") =>
                /\ pc' = "reading" /\ raised' = "None"
                /\ companies' =
                     Append(companies, [good.rec EXCEPT !.beneficiaries = 0])

C8_UnparsableBeneficiariesIsZero ==
    [][C8_ParseNumberStep /\ C8_ReadRowStep]_vars

C8_Witness ==
    /\ pc = "reading" /\ Len(rows) = 1 /\ Len(companies) = 1
    /\ BeneficiariesCell(RowDict(1)) = <<"x">>
    /\ companies[1].beneficiaries = 0
    /\ companies[1].name = <<"G">>

\* C9: the company name is the primary column's value when that is
\* non-empty, and the fallback column's value when the primary is empty or
\* only whitespace and the fallback holds a name; the record is emitted
\* with that name.  (Stated on the first row of a file when it has a cell
\* for every field, so that no other field decides the outcome.)
C9_FirstNonEmptyNameWins ==
    (Len(rows) = 1 /\ Len(rows[1]) >= Len(header) /\ header # <<>>) =>
        LET d == RowDict(1)
            primary == Get(d, COL_SHORT)
            fallback == Get(d, COL_NAME)
            emittedAs(n) == Len(companies) = 1 /\ companies[1].name = n
        IN  PlainDecimal(Get(d, COL_RANK)) =>
                /\ (Blank(primary) /\ ~Blank(fallback)) => emittedAs(Strip(fallback))
                /\ ~Blank(primary) => emittedAs(Strip(primary))

\* the configured years whose file exists and yields at least one record
Loadable ==
    {y \in Years :
        /\ files[y].exists
        /\ read_csv_data(files[y].fieldnames, files[y].rows, y).companies # <<>>}

\* C10: a missing file for a configured year does not abort main: the loop
\* goes on with the next year, the run stops without a document only when
\* no year at all yields records, and the document that is generated is
\* written and holds every record of every other year's file.
C10_MissingStep ==
    (pc = "main_loop" /\ LoopYear \in Years /\ ~files[LoopYear].exists) =>
        /\ pc' = "main_loop" /\ idx' = idx + 1
        /\ all_years_data' = all_years_data

\* after the loop, with some year loaded, the next steps are the generation
\* of the document and its writing
C10_GenerateStep ==
    /\ (pc = "main_loop" /\ LoopYear \notin Years /\ DOMAIN all_years_data # {}) =>
            pc' = "main_generated" /\ html_content' # NoDocument
    /\ pc = "main_generated" => pc' = "main_written" /\ output' = html_content

C10_Outcome ==
    /\ (pc = "main_loop" /\ LoopYear \notin Years) => DOMAIN all_years_data = Loadable
    /\ pc = "main_no_data" => Loadable = {}
    /\ pc = "main_written" =>
        /\ {output.years[i] : i \in 1..Len(output.years)} = Loadable
        /\ \A y \in Loadable :
            Len(output.years_json[y]) =
                Len(read_csv_data(files[y].fieldnames, files[y].rows, y).companies)

C10_MissingYearDoesNotAbort ==
    [][C10_MissingStep /\ C10_GenerateStep]_vars /\ []C10_Outcome

C10_Witness ==
    /\ pc = "main_written"
    /\ \E y \in Years : ~files[y].exists
    /\ \E y \in Years, z \in Years :
        /\ y < z /\ ~files[y].exists
        /\ z \in DOMAIN output.years_json /\ Len(output.years_json[z]) = 1

\* ---------------------------------------------------------------------
\* C11: a run in which no configured year is loaded
\* ---------------------------------------------------------------------
\* the loop over the configured years is over and no year was stored
NoYearLoaded == pc = "main_loop" /\ LoopYear \notin Years /\ DOMAIN all_years_data = {}

\* such a run ends at the error message, and nothing comes after it
C11_AbortStep ==
    [][/\ NoYearLoaded => pc' = "main_no_data"
       /\ pc # "main_no_data"]_vars

NothingGeneratedOrWritten ==
    /\ html_content = NoDocument /\ output = NoDocument
    /\ processed_years = <<>>

\* C11 as stated: when no configured year is loaded, main ends with a
\* non-zero outcome and has neither generated nor written the document
C11_AbortsWithNonZeroOutcome ==
    pc = "main_no_data" => exit_status # 0 /\ NothingGeneratedOrWritten

C11_Outcome ==
    /\ NoYearLoaded => NothingGeneratedOrWritten
    /\ pc = "main_no_data" =>
          /\ exit_status = 0
          /\ NothingGeneratedOrWritten
          /\ DOMAIN all_years_data = {}
          /\ \A y \in Years :
                \/ ~files[y].exists
                \/ read_csv_data(files[y].fieldnames, files[y].rows, y).companies = <<>>

\* C11, amended: when no configured year is loaded, main prints the error,
\* returns normally (exit status 0) and has neither generated nor written
\* the document
C11_PrintsAndReturns == []C11_Outcome /\ C11_AbortStep

\* a run that ended so, with one file missing and another one holding no row
C11_Witness ==
    /\ pc = "main_no_data" /\ exit_status = 0
    /\ ~files[FirstYear].exists
    /\ files[FirstYear + 1].exists /\ files[FirstYear + 1].rows = <<>>

\* ---------------------------------------------------------------------
\* C12: the embedded statistics of a year agree with its JSON array
\* ---------------------------------------------------------------------
\* the sum of the beneficiaries of the entries of a JSON array, taken over
\* its index set
RECURSIVE TotalOver(_, _)
TotalOver(arr, ks) ==
    IF ks = {} THEN 0
    ELSE LET k == CHOOSE x \in ks : TRUE
         IN  arr[k].beneficiaries + TotalOver(arr, ks \ {k})

StatsAgree(st, arr) ==
    /\ st.count = Len(arr)
    /\ st.total = TotalOver(arr, DOMAIN arr)
    /\ st.icc_count = Cardinality({k \in DOMAIN arr : arr[k].is_icc})

\* C12: in the document generate_heatmap_html returns, every loaded year
\* has statistics and a JSON array, and count, total and flagged count of
\* the statistics are the number of entries, the sum of the beneficiaries
\* and the number of flagged entries of that array and of the year's records
C12_StatsAgreeWithJson ==
    pc = "gen_done" =>
        /\ DOMAIN html_content.stats = DOMAIN all_years_data
        /\ DOMAIN html_content.years_json = DOMAIN all_years_data
        /\ \A y \in DOMAIN all_years_data :
              /\ StatsAgree(html_content.stats[y], html_content.years_json[y])
              /\ StatsAgree(html_content.stats[y], all_years_data[y])

\* a year of three records with 400, 350 and 100 beneficiaries: count 3, total 850
C12_Witness ==
    /\ pc = "gen_done"
    /\ \E y \in DOMAIN all_years_data :
          /\ html_content.stats[y].count = 3
          /\ html_content.stats[y].total = 850
          /\ html_content.stats[y].icc_count = 1
          /\ {html_content.years_json[y][k].beneficiaries : k \in 1..3} = {400, 350, 100}

\* ---------------------------------------------------------------------
\* C13: the colour of a record is a function of its category flag, its
\* sorted position and the size of its year's list
\* ---------------------------------------------------------------------
\* fractions <<numerator, denominator>> with positive denominators
FracEq(a, b) == a[1] * b[2] = b[1] * a[2]
FracLess(a, b) == a[1] * b[2] < b[1] * a[2]

\* the serialized records, as <<year, position>>
Serialized ==
    UNION {{<<y, p>> : p \in 1..Len(processed_years[y])} : y \in DOMAIN processed_years}

ColorKey(yp) ==
    <<processed_years[yp[1]][yp[2]].is_icc, yp[2], Len(processed_years[yp[1]])>>

ColorOf(yp) == processed_years[yp[1]][yp[2]].brand_color

\* C13: two serialized records of equal flag, sorted position and list size
\* have the same colour whatever their name, rank and beneficiaries, the
\* colour is generate_color of those three, and two records of one year and
\* one category at different sorted positions differ in lightness
C13_ColorIsFunctionOfFlagPositionSize ==
    \A a \in Serialized :
        /\ ColorOf(a) = generate_color(ColorKey(a)[1], ColorKey(a)[2] - 1, ColorKey(a)[3])
        /\ \A b \in Serialized :
              /\ ColorKey(a) = ColorKey(b) => ColorOf(a) = ColorOf(b)
              /\ (a[1] = b[1] /\ a[2] # b[2] /\ ColorKey(a)[1] = ColorKey(b)[1])
                    => ~FracEq(ColorOf(a).lightness, ColorOf(b).lightness)

\* two years of equal size whose first records share the flag and differ in
\* name, rank and beneficiaries, and a year with two records of one category
C13_Witness ==
    /\ pc = "gen_done"
    /\ \E a, b \in Serialized :
          /\ a[1] # b[1] /\ ColorKey(a) = ColorKey(b)
          /\ processed_years[a[1]][a[2]].name # processed_years[b[1]][b[2]].name
          /\ processed_years[a[1]][a[2]].rank # processed_years[b[1]][b[2]].rank
          /\ processed_years[a[1]][a[2]].beneficiaries
                # processed_years[b[1]][b[2]].beneficiaries
    /\ \E a, b \in Serialized :
          /\ a[1] = b[1] /\ a[2] # b[2] /\ ColorKey(a)[1] = ColorKey(b)[1]

\* ---------------------------------------------------------------------
\* C16: the year a loaded year is compared against
\* ---------------------------------------------------------------------
\* C16: the iteration of the loop for a loaded year Y leaves every record
\* of Y with the rank change relative to year Y - 1: the reference
\* direction and magnitude against the records of Y - 1 when that year is
\* loaded, and no computed change when it is not (the record keeps its
\* fields or reads as a new entrant)
C16_ComparedWithImmediatelyPrecedingYear ==
    [][(pc = "gen_loop" /\ idx' = idx + 1) =>
        LET y == SortedYears(all_years_data)[idx + 1]
        IN  /\ Len(all_years_data'[y]) = Len(all_years_data[y])
            /\ \A k \in 1..Len(all_years_data[y]) :
                  IF (y - 1) \in DOMAIN all_years_data
                  THEN AgreesWithReference(all_years_data[y - 1], all_years_data[y][k],
                                           all_years_data'[y][k])
                  ELSE \/ all_years_data'[y][k] = all_years_data[y][k]
                       \/ all_years_data'[y][k].rank_change_direction = "None"]_vars

\* ---------------------------------------------------------------------
\* C17: the shade along the sorted order of a year
\* ---------------------------------------------------------------------
HueFixedPerCategory ==
    \A a \in Serialized :
        ColorOf(a).hue = IF ColorKey(a)[1] THEN HueIcc ELSE HueOther

\* the serialized list of a year is in descending order of beneficiaries
SortedDescending(y) ==
    \A i, j \in 1..Len(processed_years[y]) :
        i < j => processed_years[y][i].beneficiaries >= processed_years[y][j].beneficiaries

\* C17 as stated: for sorted positions i < j of one year the record at i
\* has lower lightness and higher saturation than the record at j, and
\* hue is fixed per category
C17_HigherRankedDarker ==
    /\ HueFixedPerCategory
    /\ \A y \in DOMAIN processed_years :
          /\ SortedDescending(y)
          /\ \A i, j \in 1..Len(processed_years[y]) :
                i < j =>
                    /\ FracLess(processed_years[y][i].brand_color.lightness,
                                processed_years[y][j].brand_color.lightness)
                    /\ FracLess(processed_years[y][j].brand_color.saturation,
                                processed_years[y][i].brand_color.saturation)

\* C17, amended: for sorted positions i < j of one year the record at i
\* has higher lightness and lower saturation than the record at j (the
\* shade runs from light at the top of the order to dark at its end), and
\* hue is fixed per category
C17_HigherRankedLighter ==
    /\ HueFixedPerCategory
    /\ \A y \in DOMAIN processed_years :
          /\ SortedDescending(y)
          /\ \A i, j \in 1..Len(processed_years[y]) :
                i < j =>
                    /\ FracLess(processed_years[y][j].brand_color.lightness,
                                processed_years[y][i].brand_color.lightness)
                    /\ FracLess(processed_years[y][i].brand_color.saturation,
                                processed_years[y][j].brand_color.saturation)

\* a year of three records, flagged and not flagged, with distinct sizes
C17_Witness ==
    /\ pc = "gen_done"
    /\ \E y \in DOMAIN processed_years :
          /\ Len(processed_years[y]) = 3
          /\ processed_years[y][1].beneficiaries > processed_years[y][2].beneficiaries
          /\ processed_years[y][2].beneficiaries > processed_years[y][3].beneficiaries
          /\ processed_years[y][1].is_icc # processed_years[y][2].is_icc
          /\ processed_years[y][1].is_icc = processed_years[y][3].is_icc

\* ---------------------------------------------------------------------
\* C18: the brand_colors table
\* ---------------------------------------------------------------------
\* C18: a serialized record whose name is in brand_colors carries the
\* colour of the table, every other record the computed category colour
C18_BrandOverrideFirst ==
    \A a \in Serialized :
        LET r == processed_years[a[1]][a[2]]
        IN  IF r.name \in DOMAIN brand_colors
            THEN r.brand_color = brand_colors[r.name]
            ELSE r.brand_color =
                    generate_color(r.is_icc, a[2] - 1, Len(processed_years[a[1]]))

\* ---------------------------------------------------------------------
\* C20: what the comparison pass leaves alone
\* ---------------------------------------------------------------------
\* a record without its two rank-change fields
Frame(r) ==
    [rank |-> r.rank, name |-> r.name, full_name |-> r.full_name,
     beneficiaries |-> r.beneficiaries, is_icc |-> r.is_icc, year |-> r.year]

\* C20: an iteration of the loop, with its call of calculate_rank_changes,
\* changes nothing of all_years_data but the rank-change fields of the
\* current year's records: the years, the number and order of the records
\* and their rank, name, full_name, beneficiaries, is_icc and year stay,
\* and the records of every other year, the previous one included, stay
\* whole
C20_OnlyRankChangeFieldsChange ==
    [][(pc = "gen_loop" /\ idx' = idx + 1) =>
        LET cur == SortedYears(all_years_data)[idx + 1]
        IN  /\ DOMAIN all_years_data' = DOMAIN all_years_data
            /\ \A y \in DOMAIN all_years_data :
                  /\ Len(all_years_data'[y]) = Len(all_years_data[y])
                  /\ \A k \in 1..Len(all_years_data[y]) :
                        Frame(all_years_data'[y][k]) = Frame(all_years_data[y][k])
                  /\ y # cur => all_years_data'[y] = all_years_data[y]]_vars

\* the pass has run on a year of three records and has set the direction
\* of the record named "Ac" to up 2
C20_Witness ==
    /\ pc = "gen_loop" /\ idx = 2
    /\ Len(all_years_data[FirstYear + 1]) = 3
    /\ \E k \in 1..3 :
          /\ all_years_data[FirstYear + 1][k].name = <<"A", "c">>
          /\ all_years_data[FirstYear + 1][k].rank_change_direction = "up"
          /\ all_years_data[FirstYear + 1][k].rank_change_value = 2

\* ---------------------------------------------------------------------
\* C14: the year selector of the page
\* ---------------------------------------------------------------------
\* the years generate_heatmap_html was given
LoadedYears == DOMAIN all_years_data

MostRecent(ys) == CHOOSE y \in ys : \A z \in ys : z <= y

\* the current year is a loaded year and the list shown is that year's;
\* right after the load it is the most recent one; whatever the state,
\* every loaded year can be selected
C14_State ==
    /\ currentYear \in LoadedYears
    /\ currentCompanies = html_content.years_json[currentYear]
    /\ call = <<"load">> => currentYear = MostRecent(LoadedYears)
    /\ \A y \in LoadedYears : ENABLED (SwitchYear /\ currentYear' = y)

\* a call of switchYear with a loaded year makes it the current year, a
\* call with any other argument changes nothing, and no other handler
\* changes the current year
C14_Step ==
    /\ (call'[1] = "switchYear" /\ call'[2] \in LoadedYears) => currentYear' = call'[2]
    /\ (call'[1] = "switchYear" /\ call'[2] \notin LoadedYears) =>
          UNCHANGED <<currentYear, currentCompanies, activeButtons, shownStats, treemap,
                      companyHistory, modalShown, modalTitle, alerted, html_content>>
    /\ call'[1] # "switchYear" => UNCHANGED <<currentYear, currentCompanies>>

ClickedRecords == {treemap[k].data : k \in {j \in 1..Len(treemap) : treemap[j].data.name = modalTitle}}

SameFullName(r, c) == toUpperCase(r.full_name) = toUpperCase(c.full_name)

AliasOrShortName(r, c) ==
    \/ r.name = c.name
    \/ /\ c.name \in DOMAIN companyNameMapping
       /\ \/ toUpperCase(r.full_name) = companyNameMapping[c.name]
          \/ r.name = companyNameMapping[c.name]

EntriesOf(y) == {k \in 1..Len(companyHistory) : companyHistory[k].year = y}

\* the entry of year y is taken from one of the given records of y
EntryFrom(y, records) ==
    \E k \in EntriesOf(y) : \E r \in records : companyHistory[k] = HistoryEntry(y, r)

\* C15: after a click on a cell opened the detail view, the history holds
\* at most one entry per loaded year, in ascending order of year; the
\* entry of a year is taken from the record of that year whose full name
\* is the clicked record's up to letter case, otherwise from a record
\* matched through companyNameMapping or the short name; a year with no
\* such record has no entry
C15_HistoryByClickedFullName ==
    (call[1] = "click" /\ modalShown) =>
        /\ ClickedRecords # {}
        /\ \A i, j \in 1..Len(companyHistory) :
              i < j => companyHistory[i].year < companyHistory[j].year
        /\ \A k \in 1..Len(companyHistory) : companyHistory[k].year \in LoadedYears
        /\ \A y \in LoadedYears, clicked \in ClickedRecords :
              LET arr == html_content.years_json[y]
                  sameFull == {arr[p] : p \in {q \in 1..Len(arr) : SameFullName(arr[q], clicked)}}
                  alias == {arr[p] : p \in {q \in 1..Len(arr) : AliasOrShortName(arr[q], clicked)}}
              IN  IF sameFull # {} THEN EntryFrom(y, sameFull)
                  ELSE IF alias # {} THEN EntryFrom(y, alias)
                  ELSE EntriesOf(y) = {}

\* ---------------------------------------------------------------------
\* C19: the labels of a cell
\* ---------------------------------------------------------------------
MinSize(cell) == Min(cell.width, cell.height)

HasDirection(cell) == cell.data.rank_change_direction \in {"up", "down"}

BadgeShown(cell) == cell.change # <<>>

Cells == {treemap[k] : k \in 1..Len(treemap)}

SizeThresholds == 0..100

\* C19 as stated: the labels depend on the cell's pixel dimensions only:
\* there are three size thresholds such that the name is displayed exactly
\* in the cells above the first, the value exactly in the cells above the
\* second, and the rank-change badge exactly in the cells above the third
\* whose record has a direction; a record without direction has no badge
C19_LabelsBySizeOnly ==
    /\ \E t \in SizeThresholds : \A c \in Cells : c.nameDisplayed <=> MinSize(c) > t
    /\ \E t \in SizeThresholds : \A c \in Cells : c.showValue <=> MinSize(c) > t
    /\ \E t \in SizeThresholds :
          \A c \in Cells : BadgeShown(c) <=> (HasDirection(c) /\ MinSize(c) > t)
    /\ \A c \in Cells : ~HasDirection(c) => ~BadgeShown(c)

\* C19, amended: the name is displayed when the smaller side of the cell
\* exceeds 30 px, and below that only once the cell's logo failed to load;
\* the value is present exactly when the smaller side exceeds 35 px; the
\* rank-change badge is present, whatever the size of the cell, exactly
\* for flagged records whose direction is up or down, with the arrow of
\* the direction and the magnitude
C19_LabelsBySizeAndFlag ==
    \A c \in Cells :
        /\ c.nameDisplayed <=> (MinSize(c) > NameThreshold \/ ~c.logoDisplayed)
        /\ c.showValue <=> MinSize(c) > ValueThreshold
        /\ BadgeShown(c) <=> (c.data.is_icc /\ HasDirection(c))
        /\ BadgeShown(c) =>
              c.change = <<IF c.data.rank_change_direction = "up"
                           THEN "UPARROW" ELSE "DOWNARROW",
                           c.data.rank_change_value>>

\* cells of 30 px rendered by switchYear: a flagged record with direction up shows its badge but
\* neither name nor value, a record not flagged with direction up shows no
\* badge
C19_Witness ==
    /\ call = <<"switchYear", currentYear>>
    /\ \E c \in Cells :
          /\ MinSize(c) = 30 /\ c.data.is_icc /\ c.data.rank_change_direction = "up"
          /\ BadgeShown(c) /\ ~c.nameDisplayed /\ ~c.showValue
    /\ \E c \in Cells :
          /\ ~c.data.is_icc /\ c.data.rank_change_direction = "up" /\ ~BadgeShown(c)

\* ---------------------------------------------------------------------
\* C21: the JSON array of a year is the year's list, stably sorted
\* ---------------------------------------------------------------------
\* the entry of a JSON array carries the fields of a record
Preserved(entry, r) ==
    /\ entry.name = r.name /\ entry.full_name = r.full_name
    /\ entry.rank = r.rank /\ entry.beneficiaries = r.beneficiaries
    /\ entry.is_icc = r.is_icc
    /\ entry.rank_change_direction = JsonDirection(r.rank_change_direction)
    /\ entry.rank_change_value = r.rank_change_value

\* the one-to-one maps from the positions of an array to those of a list
Bijections(n) == {f \in [1..n -> 1..n] : \A p, q \in 1..n : p # q => f[p] # f[q]}

\* arr is list reordered by beneficiaries descending, records of equal
\* beneficiaries in the order they have in list
StablySorted(arr, list) ==
    /\ Len(arr) = Len(list)
    /\ \E f \in Bijections(Len(list)) :
          /\ \A p \in 1..Len(arr) : Preserved(arr[p], list[f[p]])
          /\ \A p, q \in 1..Len(arr) :
                p < q =>
                    /\ arr[p].beneficiaries >= arr[q].beneficiaries
                    /\ arr[p].beneficiaries = arr[q].beneficiaries => f[p] < f[q]

\* C21: in the document generate_heatmap_html returns, the JSON array of
\* every loaded year is a permutation of the year's records (as they are
\* once the loop has passed the year) that preserves name, full_name,
\* rank, beneficiaries, flag and rank-change fields, in descending order
\* of beneficiaries, records of equal beneficiaries in their input order
C21_JsonIsStableSortOfRecords ==
    pc = "gen_done" =>
        /\ DOMAIN html_content.years_json = DOMAIN all_years_data
        /\ \A y \in DOMAIN all_years_data :
              StablySorted(html_content.years_json[y], all_years_data[y])

\* a year whose list starts with the smallest record, followed by two
\* records of equal beneficiaries and different names: the sort has moved
\* the first record to the end and kept the two others in their order
C21_Witness ==
    /\ pc = "gen_done"
    /\ \E y \in DOMAIN all_years_data :
          /\ Len(all_years_data[y]) = 3
          /\ all_years_data[y][1].beneficiaries < all_years_data[y][2].beneficiaries
          /\ all_years_data[y][2].beneficiaries = all_years_data[y][3].beneficiaries
          /\ all_years_data[y][2].name # all_years_data[y][3].name
          /\ html_content.years_json[y][1].name = all_years_data[y][2].name
          /\ html_content.years_json[y][2].name = all_years_data[y][3].name
          /\ html_content.years_json[y][3].name = all_years_data[y][1].name

\* ---------------------------------------------------------------------
\* C22: direction and magnitude of a rank change go together
\* ---------------------------------------------------------------------
\* both rank-change fields absent (None, null once serialized), or a
\* direction with a magnitude that is a number
BothOrNeither(r) ==
    \/ /\ r.rank_change_direction \in {"None", "null"}
       /\ r.rank_change_value = NoValue
    \/ /\ r.rank_change_direction \in {"up", "down"}
       /\ r.rank_change_value \in Nat

\* the records of a list
RecordsOf(list) == {list[k] : k \in 1..Len(list)}

\* the records of every year of a dict of lists
RecordsOfYears(d) == UNION {RecordsOf(d[y]) : y \in DOMAIN d}

\* every record the program holds: the list read_csv_data builds, the list
\* calculate_rank_changes is called on, the lists of the loaded years
\* before and after the comparison pass, the processed lists and the JSON
\* arrays of the document returned and written
AllRecords ==
    RecordsOf(companies) \cup RecordsOf(current_companies)
        \cup RecordsOfYears(all_years_data) \cup RecordsOfYears(processed_years)
        \cup (IF html_content = NoDocument THEN {}
              ELSE RecordsOfYears(html_content.years_json))
        \cup (IF output = NoDocument THEN {} ELSE RecordsOfYears(output.years_json))

\* the loaded years that have been compared with a previous one
ComparedYears ==
    IF pc \in {"main_generated", "main_written"}
    THEN {y \in DOMAIN all_years_data : \E z \in DOMAIN all_years_data : z < y}
    ELSE {}

\* the records of a compared year, before and after serialization
ComparedRecords(y) ==
    RecordsOf(all_years_data[y]) \cup RecordsOf(processed_years[y])
        \cup RecordsOf(html_content.years_json[y])

\* C22: at every stage the two rank-change fields of a record are both
\* absent or both present, and in a year that went through the cross-year
\* computation a direction comes with a magnitude of at least 1
C22_DirectionAndValueTogether ==
    /\ \A r \in AllRecords : BothOrNeither(r)
    /\ \A y \in ComparedYears :
          \A r \in ComparedRecords(y) :
              r.rank_change_direction \in {"up", "down"} => r.rank_change_value >= 1

\* the document is written; the earliest year's record was read from a
\* glyph without digits and is serialized as down with magnitude 0, and
\* the next year's record, read as up 2, is serialized as down 1
C22_Witness ==
    /\ pc = "main_written"
    /\ files[FirstYear].exists /\ files[FirstYear + 1].exists
    /\ files[FirstYear].rows = << << <<"1">>, <<"A", "c">>, <<"5">>, <<"DN", "VS">> >> >>
    /\ files[FirstYear + 1].rows =
          << << <<"2">>, <<"A", "c">>, <<"7">>, <<"UPA", "VS", "2">> >> >>
    /\ output.years_json[FirstYear][1].rank_change_direction = "down"
    /\ output.years_json[FirstYear][1].rank_change_value = 0
    /\ output.years_json[FirstYear + 1][1].rank_change_direction = "down"
    /\ output.years_json[FirstYear + 1][1].rank_change_value = 1

\* ---------------------------------------------------------------------
\* C23: list, statistics and active button belong to the current year
\* ---------------------------------------------------------------------
\* the records of the cells of the treemap, in their order
DisplayedList == [k \in 1..Len(treemap) |-> treemap[k].data]

\* C23: in every state of the page the current year is a loaded year, the
\* cells show that year's JSON array, exactly one year button is active
\* and it is the current year's, and the count, total and flagged count
\* shown are the statistics embedded for that year, which are those of the
\* list shown
C23_ShownDataBelongsToCurrentYear ==
    /\ currentYear \in DOMAIN allYearsData
    /\ currentCompanies = allYearsData[currentYear]
    /\ DisplayedList = allYearsData[currentYear]
    /\ Cardinality(activeButtons) = 1
    /\ activeButtons = {currentYear}
    /\ activeButtons \subseteq {availableYears[k] : k \in 1..Len(availableYears)}
    /\ shownStats = allYearsStats[currentYear]
    /\ StatsAgree(shownStats, DisplayedList)

\* the page was loaded on the later of two years whose statistics differ
\* and switchYear has been called with the earlier one
C23_Witness ==
    /\ pc = "page"
    /\ html_content.default_year = FirstYear + 1
    /\ call = <<"switchYear", FirstYear>>
    /\ currentYear = FirstYear
    /\ allYearsStats[FirstYear] # allYearsStats[FirstYear + 1]
    /\ Len(allYearsData[FirstYear]) # Len(allYearsData[FirstYear + 1])
    /\ shownStats = allYearsStats[FirstYear]

\* ---------------------------------------------------------------------
\* C24: a click on a cell always opens the detail view
\* ---------------------------------------------------------------------
\* the years of the entries of a history
HistoryYears(history) == {history[k].year : k \in 1..Len(history)}

\* showCompanyDetail on the name of every cell shown raises no alert and
\* builds a history with an entry for the year shown; no alert was raised
C24_State ==
    /\ alerted = "None"
    /\ \A k \in 1..Len(treemap) :
          LET r == showCompanyDetail(html_content, treemap[k].data.name)
          IN  /\ r.alert = "None"
              /\ currentYear \in HistoryYears(r.history)

\* a click on a cell opens the detail view on a history that has an entry
\* for the year shown
C24_Step ==
    call' = <<"click">> =>
        /\ alerted' = "None"
        /\ modalShown'
        /\ currentYear \in HistoryYears(companyHistory')
        /\ \E k \in 1..Len(treemap) : modalTitle' = treemap[k].data.name

\* C24: whatever the loaded data and the year shown, showCompanyDetail
\* called with the name of a cell of the year shown finds the company and
\* builds a history with an entry for that year: no alert is raised by a
\* click on a cell and the detail view opens
C24_ClickAlwaysOpensDetail == []C24_State /\ [][C24_Step]_vars

\* the detail view was opened by a click on a cell of the later year whose
\* name has no entry in companyNameMapping and whose full name, taken from
\* the earlier year's record of that name, no record of the later year
\* carries: the entry of the later year was found by name
C24_Witness ==
    /\ pc = "page" /\ call = <<"click">> /\ modalShown
    /\ currentYear = FirstYear + 1
    /\ modalTitle \notin DOMAIN companyNameMapping
    /\ DOMAIN allYearsData = {FirstYear, FirstYear + 1}
    /\ ByFullName(allYearsData[currentYear],
                  toUpperCase(clickedCompany(html_content, modalTitle).full_name)) = {}
    /\ HistoryYears(companyHistory) = {FirstYear, FirstYear + 1}

====
